---------------------------- MODULE Spec2Model ----------------------------
(***************************************************************************)
(* A model of simpleserve: the thread pool (src/lib.rs), the route table   *)
(* and the accept loops of Webserver (src/server.rs), and the processing   *)
(* of one connection (src/utils.rs).                                       *)
(*                                                                         *)
(* Strings are sequences of one-character strings, so that a path is       *)
(* sanitized, split and compared character by character as the code does.  *)
(* Filesystem paths (PathBuf) are sequences of components, each component  *)
(* a sequence of characters.                                               *)
(***************************************************************************)
EXTENDS Integers, Sequences, FiniteSets, TLC

(***************************************************************************)
(* Bounds of the model.                                                    *)
(***************************************************************************)
\* user routes that add_route / add_accessible_files may add to one server
MaxRoutes == 2
\* workers of the pool (ThreadPool::new(size), size > 0)
MaxWorkers == 2
\* jobs or connections submitted to one pool
MaxJobs == 3
\* the most pieces a raw path token is made of
MaxPieces == 4

(***************************************************************************)
(* Strings.                                                                *)
(***************************************************************************)
\* the outcome of a call that can fail: Ok(val), or a failure
Ok(v) == [ok |-> TRUE, val |-> v]
Fail == [ok |-> FALSE, val |-> <<>>]

\* s[i..j] (1-based, inclusive); empty when j < i
Slice(s, i, j) == IF j < i THEN <<>> ELSE SubSeq(s, i, j)

\* &s[1..] of Rust: the string without its first byte; a failure (a panic)
\* when the start index 1 is beyond the end, i.e. on the empty string
SliceFrom1(s) == IF Len(s) = 0 THEN Fail ELSE Ok(Slice(s, 2, Len(s)))

\* does pat occur in s at index i
MatchAt(s, i, pat) ==
    /\ i + Len(pat) - 1 <= Len(s)
    /\ \A k \in 1..Len(pat) : s[i + k - 1] = pat[k]


(***************************************************************************)
(* The request line: lines().next_line() and split_whitespace().nth(1).    *)
(***************************************************************************)
\* the characters Rust's split_whitespace splits at that the model uses
IsWhitespace(c) == c = " "

\* the tokens of line from index i on, cur being the token read so far
RECURSIVE SplitFrom(_, _, _)
SplitFrom(line, i, cur) ==
    IF i > Len(line)
    THEN IF cur = <<>> THEN <<>> ELSE <<cur>>
    ELSE IF IsWhitespace(line[i])
         THEN IF cur = <<>>
              THEN SplitFrom(line, i + 1, <<>>)
              ELSE <<cur>> \o SplitFrom(line, i + 1, <<>>)
         ELSE SplitFrom(line, i + 1, Append(cur, line[i]))

split_whitespace(line) == SplitFrom(line, 1, <<>>)

(***************************************************************************)
(* urlencoding::decode: every "%XY" with two hex digits becomes the byte   *)
(* 16*X+Y, a '%' not followed by two hex digits is kept; the result must   *)
(* be UTF-8, else the call is an Err.                                      *)
(***************************************************************************)
IsHex(c) == c \in {"0", "2", "3", "4", "E", "F"}

HexVal(c) ==
    CASE c = "0" -> 0 [] c = "2" -> 2 [] c = "3" -> 3 [] c = "4" -> 4
      [] c = "E" -> 14 [] c = "F" -> 15

\* the character of an ASCII byte (the bytes two model hex digits can form;
\* the six control bytes share one character)
AsciiChar(b) ==
    CASE b = 32 -> " " [] b = 34 -> "'" [] b = 35 -> "#" [] b = 36 -> "$"
      [] b = 46 -> "." [] b = 47 -> "/" [] b = 48 -> "0" [] b = 50 -> "2"
      [] b = 51 -> "3" [] b = 52 -> "4" [] b = 62 -> ">" [] b = 63 -> "?"
      [] b = 64 -> "@" [] b = 66 -> "B" [] b = 67 -> "C" [] b = 68 -> "D"
      [] b = 78 -> "N" [] b = 79 -> "O"
      [] OTHER -> "^"

\* the decoded bytes of s from index i on, or a failure (a byte >= 0x80 that
\* no continuation byte of the model can complete: invalid UTF-8)
RECURSIVE DecodeFrom(_, _)
DecodeFrom(s, i) ==
    IF i > Len(s) THEN Ok(<<>>)
    ELSE IF s[i] = "%" /\ i + 2 <= Len(s) /\ IsHex(s[i + 1]) /\ IsHex(s[i + 2])
         THEN LET b == 16 * HexVal(s[i + 1]) + HexVal(s[i + 2])
                  rest == DecodeFrom(s, i + 3)
              IN  IF b >= 128 \/ ~rest.ok THEN Fail
                  ELSE Ok(<<AsciiChar(b)>> \o rest.val)
         ELSE LET rest == DecodeFrom(s, i + 1)
              IN  IF ~rest.ok THEN Fail ELSE Ok(<<s[i]>> \o rest.val)

decode(s) == DecodeFrom(s, 1)

(***************************************************************************)
(* Regex::new(r"/\.\./").replace_all(route, "/"): the leftmost matches,    *)
(* not overlapping, each replaced by "/".                                  *)
(***************************************************************************)
DotDotSeg == <<"/", ".", ".", "/">>

RECURSIVE ReplaceAllFrom(_, _)
ReplaceAllFrom(s, i) ==
    IF i > Len(s) THEN <<>>
    ELSE IF MatchAt(s, i, DotDotSeg)
         THEN <<"/">> \o ReplaceAllFrom(s, i + Len(DotDotSeg))
         ELSE <<s[i]>> \o ReplaceAllFrom(s, i + 1)

\* a replacement that resolves "..": the component before "/../" goes too
RECURSIVE StripComponent(_)
StripComponent(acc) ==
    IF acc = <<>> \/ acc[Len(acc)] = "/" THEN acc
    ELSE StripComponent(Slice(acc, 1, Len(acc) - 1))

RECURSIVE ResolveFrom(_, _, _)
ResolveFrom(s, i, acc) ==
    IF i > Len(s) THEN acc
    ELSE IF MatchAt(s, i, DotDotSeg)
         THEN LET up == StripComponent(acc)
              IN  ResolveFrom(s, i + Len(DotDotSeg),
                              IF up # <<>> THEN up ELSE <<"/">>)
         ELSE ResolveFrom(s, i + 1, Append(acc, s[i]))

remove_dotdot_resolving(s) == ResolveFrom(s, 1, <<>>)

remove_dotdot(s) == ReplaceAllFrom(s, 1)

(***************************************************************************)
(* Regex::new(r"\?[^ ]+").replace(route, ""): the leftmost '?' that is      *)
(* followed by at least one character other than a space, with the longest *)
(* run of such characters after it, is removed; nothing else is.           *)
(***************************************************************************)
\* the last index of the run of non-space characters starting at i
RECURSIVE RunEnd(_, _)
RunEnd(s, i) ==
    IF i + 1 <= Len(s) /\ s[i + 1] # " " THEN RunEnd(s, i + 1) ELSE i

QueryStarts(s) ==
    {i \in 1..Len(s) : s[i] = "?" /\ i + 1 <= Len(s) /\ s[i + 1] # " "}

remove_query(s) ==
    IF QueryStarts(s) = {} THEN s
    ELSE LET i == CHOOSE k \in QueryStarts(s) : \A m \in QueryStarts(s) : k <= m
             j == RunEnd(s, i + 1)
         IN  Slice(s, 1, i - 1) \o Slice(s, j + 1, Len(s))

\* utils.rs 73..78: the sanitized route of a raw path token, or the failure
\* of the decoding
sanitize(raw) ==
    LET d == decode(raw)
    IN  IF ~d.ok THEN Fail ELSE Ok(remove_query(remove_dotdot(d.val)))

(***************************************************************************)
(* The filesystem the handlers read.  The process runs in the directory    *)
(* /w; a path is resolved as std::fs::canonicalize resolves it (relative   *)
(* paths from the working directory, "." and ".." components resolved,     *)
(* Err when the path is empty or names nothing that exists).               *)
(***************************************************************************)
Cwd == << <<"w">> >>
Dirs == { <<>>, Cwd }

\* the files that may exist: two served files and the not-found page
FileA == Cwd \o << <<"a">> >>
FileS == Cwd \o << <<"s">> >>
NotFoundPage == <<"4", "0", "4", ".", "h">>
File404 == Cwd \o <<NotFoundPage>>
AllFiles == {FileA, FileS, File404}

\* the components of path s from index i on, cur being the one read so far
RECURSIVE ComponentsFrom(_, _, _)
ComponentsFrom(s, i, cur) ==
    IF i > Len(s) THEN <<cur>>
    ELSE IF s[i] = "/"
         THEN <<cur>> \o ComponentsFrom(s, i + 1, <<>>)
         ELSE ComponentsFrom(s, i + 1, Append(cur, s[i]))

\* walk the components cs from directory at; fails when a step leaves what exists
RECURSIVE Walk(_, _, _)
Walk(fs, at, cs) ==
    IF cs = <<>> THEN Ok(at)
    ELSE IF at \notin Dirs THEN Fail
    ELSE LET c == Head(cs)
         IN  IF c = <<>> \/ c = <<".">> THEN Walk(fs, at, Tail(cs))
             ELSE IF c = <<".", ".">>
                  THEN Walk(fs, IF at = <<>> THEN at ELSE Slice(at, 1, Len(at) - 1), Tail(cs))
                  ELSE IF Append(at, c) \in Dirs \cup fs
                       THEN Walk(fs, Append(at, c), Tail(cs))
                       ELSE Fail

\* path::Path::new(p).canonicalize(): the canonical absolute path, or Err
canonicalize(fs, p) ==
    IF p = <<>> THEN Fail
    ELSE Walk(fs, IF p[1] = "/" THEN <<>> ELSE Cwd, ComponentsFrom(p, 1, <<>>))

\* PathBuf::extension of a canonical path: what follows the last '.' of the
\* last component, "" when there is no '.' after the first character
extension(cp) ==
    IF cp = <<>> THEN <<>>
    ELSE LET name == cp[Len(cp)]
             dots == {i \in 2..Len(name) : name[i] = "."}
         IN  IF dots = {} THEN <<>>
             ELSE Slice(name, 1 + CHOOSE i \in dots : \A k \in dots : k <= i, Len(name))

(***************************************************************************)
(* Responses: Page and Bytes (server.rs 390..506).                         *)
(***************************************************************************)
Page(status, content) == [kind |-> "Page", status |-> status, content |-> content]

\* what a handler that panicked leaves in place of a response
Panicked == [kind |-> "Panic"]

\* Bytes::new(status, path): the file read whole, tagged with its canonical
\* path and extension; an Err if the path cannot be resolved or read
BytesNew(fs, status, path) ==
    LET cp == canonicalize(fs, path)
    IN  IF ~cp.ok \/ cp.val \notin fs THEN Fail
        ELSE Ok([kind |-> "Bytes", status |-> status,
                 content |-> <<"contents of", cp.val>>,
                 file_location |-> cp.val, file_type |-> extension(cp.val)])

\* fs::read_to_string(path): the text of the file, or an Err
read_to_string(fs, path) ==
    LET cp == canonicalize(fs, path)
    IN  IF ~cp.ok \/ cp.val \notin fs THEN Fail ELSE Ok(<<"contents of", cp.val>>)

(***************************************************************************)
(* ConnectionInfo (server.rs 537..577).  The socket is modelled by what    *)
(* the peer sends (input: the first line, or "None" at end of stream) and  *)
(* by the I/O operation that fails on it, if any (io).                     *)
(***************************************************************************)
ConnectionInfo_new(input, io) ==
    [connection_type |-> "Http", ssl_stream |-> "None", stream |-> "Some",
     input |-> input, io |-> io]

ConnectionInfo_new_ssl(input, io) ==
    [connection_type |-> "Https", ssl_stream |-> "Some", stream |-> "None",
     input |-> input, io |-> io]

\* ConnectionInfo::stream / ssl_stream: the variant, or a panic when it is None
stream(conn) == IF conn.stream = "Some" THEN Ok("TcpStream") ELSE Fail
ssl_stream(conn) == IF conn.ssl_stream = "Some" THEN Ok("SslStream") ELSE Fail

(***************************************************************************)
(* Handlers.  A HandlerFunction is named by a string; the two built-in     *)
(* ones are modelled from utils.rs, a user's handler returns a page that   *)
(* names it.                                                               *)
(***************************************************************************)
Route404 == <<"4", "0", "4">>
Handler(route, handler) == [route |-> route, handler |-> handler]

RequestInfo(conn, route, blacklisted_paths) ==
    [conn |-> conn, route |-> route, blacklisted_paths |-> blacklisted_paths]

UserHandlers == {"h1"}
UserNotFound == {"nf1", "nf2"}

\* utils.rs 159..173
base_not_found_handler(fs, request) ==
    LET sub == SliceFrom1(request.route)
    IN  IF ~sub.ok THEN Panicked
        ELSE LET bytes == BytesNew(fs, 200, sub.val)
             IN  IF bytes.ok
                 THEN IF \E i \in 1..Len(request.blacklisted_paths) :
                              request.blacklisted_paths[i] = bytes.val.file_location
                      THEN Page(403, <<"Forbidden">>)
                      ELSE bytes.val
                 ELSE LET content == read_to_string(fs, NotFoundPage)
                      IN  IF ~content.ok THEN Panicked ELSE Page(404, content.val)

\* utils.rs 151..153
handle_http_file(fs, request) ==
    LET sub == SliceFrom1(request.route)
    IN  IF ~sub.ok THEN Panicked
        ELSE LET bytes == BytesNew(fs, 200, sub.val)
             IN  IF ~bytes.ok THEN Panicked ELSE bytes.val

\* utils.rs 155..157
handle_https_file(fs, request) ==
    LET bytes == BytesNew(fs, 200, request.route)
    IN  IF ~bytes.ok THEN Panicked ELSE bytes.val

\* utils.rs 139..149
base_file_handler(fs, request) ==
    IF request.conn.connection_type = "Http"
    THEN handle_http_file(fs, request)
    ELSE handle_https_file(fs, request)

\* a handler of the user: lib.rs 185..187, server.rs 447..449
user_handler(h, request) ==
    IF h \in UserNotFound THEN Page(404, <<h>>) ELSE Page(200, <<h>>)

\* (handler.handler())(&request_info): the response, or Panicked
Invoke(fs, h, request) ==
    CASE h = "base_not_found_handler" -> base_not_found_handler(fs, request)
      [] h = "base_file_handler" -> base_file_handler(fs, request)
      [] OTHER -> user_handler(h, request)

(***************************************************************************)
(* The route scan of handle_http_connection / handle_https_connection      *)
(* (utils.rs 82..90, 123..131): from binding i on, with the response so    *)
(* far and the handlers invoked so far.                                    *)
(***************************************************************************)
Placeholder == Page(404, <<"Not found">>)

RECURSIVE ScanFrom(_, _, _, _, _, _)
ScanFrom(fs, routes, i, request, response, calls) ==
    IF i > Len(routes) THEN [response |-> response, calls |-> calls]
    ELSE IF routes[i].route = request.route
         THEN [response |-> Invoke(fs, routes[i].handler, request),
               calls |-> Append(calls, routes[i].handler)]
         ELSE IF routes[i].route = Route404
              THEN LET r == Invoke(fs, routes[i].handler, request)
                   IN  IF r.kind = "Panic"
                       THEN [response |-> Panicked,
                             calls |-> Append(calls, routes[i].handler)]
                       ELSE ScanFrom(fs, routes, i + 1, request, r,
                                     Append(calls, routes[i].handler))
              ELSE ScanFrom(fs, routes, i + 1, request, response, calls)

\* a scan that never records the not-found binding as the fallback
route_scan_exact_only(fs, routes, request) ==
    LET hits == {i \in 1..Len(routes) : routes[i].route = request.route}
    IN  IF hits = {} THEN [response |-> Placeholder, calls |-> <<>>]
        ELSE LET i == CHOOSE k \in hits : \A m \in hits : k <= m
             IN  [response |-> Invoke(fs, routes[i].handler, request),
                  calls |-> <<routes[i].handler>>]

route_scan(fs, routes, request) == ScanFrom(fs, routes, 1, request, Placeholder, <<>>)

(***************************************************************************)
(* Sendable::send (server.rs 85..97 for Page, 492..505 for Bytes): the     *)
(* stream of the connection's kind is taken and the rendered response is   *)
(* written to it.  "Ok", "Err" (the write failed) or "Panic" (the variant  *)
(* asked for is not populated).                                            *)
(***************************************************************************)
send(response, conn) ==
    LET s == IF conn.connection_type = "Http" THEN stream(conn) ELSE ssl_stream(conn)
    IN  IF ~s.ok THEN "Panic"
        ELSE IF conn.io = "write" THEN "Err" ELSE "Ok"

(***************************************************************************)
(* The processing of one connection.  The result is a record:              *)
(*   result   "Ok", "Err" (the function returned an Err) or "Panic"        *)
(*   trace    the states the connection went through                       *)
(*   route    the sanitized path, when there is one                        *)
(*   response the response of the route scan ([kind |-> "None"] before it) *)
(*   calls    the handlers invoked, in order                               *)
(***************************************************************************)
NoResponse == [kind |-> "None"]

Outcome(result, trace, route, response, calls) ==
    [result |-> result, trace |-> trace, route |-> route,
     response |-> response, calls |-> calls]

\* utils.rs 92..94 and 133..136: the response is sent, then conn.stream() is
\* flushed, for both kinds of connection
SendAndFlush(conn, route, scan) ==
    LET tr == <<"Accepted", "LineRead", "Sanitized", "Dispatched">>
        sent == send(scan.response, conn)
    IN  IF sent = "Panic"
        THEN Outcome("Panic", Append(tr, "Fatal"), route, scan.response, scan.calls)
        ELSE IF sent = "Err"
        THEN Outcome("Err", Append(tr, "Aborted"), route, scan.response, scan.calls)
        ELSE IF ~stream(conn).ok
        THEN Outcome("Panic", Append(tr, "Fatal"), route, scan.response, scan.calls)
        ELSE IF conn.io = "flush"
        THEN Outcome("Err", Append(tr, "Aborted"), route, scan.response, scan.calls)
        ELSE Outcome("Ok", tr \o <<"Rendered", "Closed">>, route, scan.response,
                     scan.calls)

\* utils.rs 58..90 and 99..131, reader being the stream the BufReader wraps
HandleWith(fs, conn, routes, blacklisted_paths, reader) ==
    IF ~reader.ok
    THEN Outcome("Panic", <<"Accepted", "Fatal">>, Fail, NoResponse, <<>>)
    ELSE IF conn.io = "read"
    THEN Outcome("Err", <<"Accepted", "Aborted">>, Fail, NoResponse, <<>>)
    ELSE IF ~conn.input.ok
    THEN Outcome("Err", <<"Accepted", "LineRead", "Aborted">>, Fail, NoResponse, <<>>)
    ELSE LET tokens == split_whitespace(conn.input.val)
         IN  IF Len(tokens) < 2
             THEN Outcome("Err", <<"Accepted", "LineRead", "Aborted">>, Fail,
                          NoResponse, <<>>)
             ELSE LET route == sanitize(tokens[2])
                  IN  IF ~route.ok
                      THEN Outcome("Err", <<"Accepted", "LineRead", "Aborted">>, Fail,
                                   NoResponse, <<>>)
                      ELSE LET request == RequestInfo(conn, route.val, blacklisted_paths)
                               scan == route_scan(fs, routes, request)
                           IN  IF scan.response.kind = "Panic"
                               THEN Outcome("Panic",
                                            <<"Accepted", "LineRead", "Sanitized", "Fatal">>,
                                            route, scan.response, scan.calls)
                               ELSE SendAndFlush(conn, route, scan)

\* utils.rs 56..95
handle_http_connection(fs, conn, routes, blacklisted_paths) ==
    HandleWith(fs, conn, routes, blacklisted_paths, stream(conn))

\* utils.rs 97..137
handle_https_connection(fs, conn, routes, blacklisted_paths) ==
    HandleWith(fs, conn, routes, blacklisted_paths, ssl_stream(conn))

\* utils.rs 44..54
handle_connection(fs, conn, routes, blacklisted_paths) ==
    IF conn.connection_type = "Http"
    THEN handle_http_connection(fs, conn, routes, blacklisted_paths)
    ELSE handle_https_connection(fs, conn, routes, blacklisted_paths)

\* Result::unwrap of the job closures (server.rs 275, 324): the closure
\* returns on Ok and panics on an Err; a panic below it unwinds through it
unwrap(result) == IF result = "Ok" THEN "Ok" ELSE "Panic"

(***************************************************************************)
(* The route table of Webserver (server.rs 135..218).                      *)
(***************************************************************************)
\* Webserver::new: the routes field
new_routes == <<Handler(Route404, "base_not_found_handler")>>

\* a set_404_callback that adds the new binding and keeps the old one
set_404_callback_push(rs, callback) == Append(rs, Handler(Route404, callback))

\* server.rs 158..160
set_404_callback(rs, callback) == [rs EXCEPT ![1] = Handler(Route404, callback)]

\* an add_route without the scan for an existing binding
add_route_unchecked(rs, route, handler) ==
    IF route = <<>> THEN [result |-> "Panic", routes |-> rs]
    ELSE [result |-> "Ok", routes |-> Append(rs, Handler(route, handler))]

\* server.rs 197..208: the call's outcome and the routes after it
add_route(rs, route, handler) ==
    IF route = <<>> THEN [result |-> "Panic", routes |-> rs]
    ELSE IF \E i \in 1..Len(rs) : rs[i].route = route
         THEN [result |-> "Panic", routes |-> rs]
         ELSE [result |-> "Ok", routes |-> Append(rs, Handler(route, handler))]

\* server.rs 210..218: the paths from index i on; an unresolvable path ends
\* the call with an Err, a failing add_route with its panic
RECURSIVE AddFilesFrom(_, _, _, _)
AddFilesFrom(fs, rs, paths, i) ==
    IF i > Len(paths) THEN [result |-> "Ok", routes |-> rs]
    ELSE IF ~canonicalize(fs, paths[i]).ok THEN [result |-> "Err", routes |-> rs]
    ELSE LET r == add_route(rs, <<"/">> \o paths[i], "base_file_handler")
         IN  IF r.result = "Panic" THEN r
             ELSE AddFilesFrom(fs, r.routes, paths, i + 1)

add_accessible_files(fs, rs, paths) == AddFilesFrom(fs, rs, paths, 1)

(***************************************************************************)
(* The thread pool (lib.rs 54..149).  A job is a closure: one of a user of *)
(* the pool (it returns, or it panics) or the closure of an accept loop,   *)
(* which processes a connection with the clones it captured.               *)
(***************************************************************************)
NoConn == ConnectionInfo_new(Fail, "none")
NoOutcome == Outcome("None", <<>>, Fail, NoResponse, <<>>)

Closure(panics) ==
    [kind |-> "closure", panics |-> panics, conn |-> NoConn, routes |-> <<>>,
     blacklisted_paths |-> <<>>, ran |-> 0, status |-> "queued", out |-> NoOutcome]

\* a job closure that captures the table of a new server, not the clones
ConnectionJob_stale(conn, route_clone, blacklisted_paths_clone) ==
    [kind |-> "connection", panics |-> FALSE, conn |-> conn, routes |-> new_routes,
     blacklisted_paths |-> <<>>, ran |-> 0, status |-> "queued", out |-> NoOutcome]

ConnectionJob(conn, route_clone, blacklisted_paths_clone) ==
    [kind |-> "connection", panics |-> FALSE, conn |-> conn, routes |-> route_clone,
     blacklisted_paths |-> blacklisted_paths_clone, ran |-> 0, status |-> "queued",
     out |-> NoOutcome]

\* what running the closure does: its outcome, and whether it returns ("Ok")
\* or panics ("Panic")
run_job(fs, job) ==
    IF job.kind = "closure"
    THEN [out |-> NoOutcome, result |-> IF job.panics THEN "Panic" ELSE "Ok"]
    ELSE LET out == handle_connection(fs, job.conn, job.routes, job.blacklisted_paths)
         IN  [out |-> out, result |-> unwrap(out.result)]

\* lib.rs 95..106: the sender is taken by reference (a panic when it is None)
\* and the job is sent (a panic when the receiver is gone); q is the channel
ThreadPool_execute(sndr, receiver_alive, q, j) ==
    IF sndr = "None" THEN [result |-> "Panic", queue |-> q]
    ELSE IF ~receiver_alive THEN [result |-> "Panic", queue |-> q]
    ELSE [result |-> "Ok", queue |-> Append(q, j)]

\* lib.rs 108..111 and 116: drop(self.sender.take())
take_sender(sndr) == "None"

\* a recv that hands out the oldest message and leaves it in the channel
recv_peek(q, sndr) ==
    IF q # <<>> THEN [kind |-> "Ok", job |-> Head(q), queue |-> q]
    ELSE IF sndr = "None" THEN [kind |-> "Err", job |-> 0, queue |-> q]
    ELSE [kind |-> "Block", job |-> 0, queue |-> q]

\* a recv that does not wait: an Err whenever the channel is empty
recv_nonblocking(q, sndr) ==
    IF q # <<>> THEN [kind |-> "Ok", job |-> Head(q), queue |-> Tail(q)]
    ELSE [kind |-> "Err", job |-> 0, queue |-> q]

\* mpsc::Receiver::recv: the oldest message; an Err once the channel is
\* empty and its sender is dropped; otherwise the caller blocks
recv(q, sndr) ==
    IF q # <<>> THEN [kind |-> "Ok", job |-> Head(q), queue |-> Tail(q)]
    ELSE IF sndr = "None" THEN [kind |-> "Err", job |-> 0, queue |-> q]
    ELSE [kind |-> "Block", job |-> 0, queue |-> q]

\* a guard bound to a name that lives as long as the job runs
lock_held_through_job(w) == w

\* lib.rs 133: the guard of receiver.lock() is a temporary of the let
\* statement, so the lock is released when recv has returned; the value is
\* the holder of the lock while worker w runs the job it received
lock_after_recv(w) == 0

\* a join that does not wait for the thread
join_no_wait(pc) == IF pc = "panicked" THEN "Panic" ELSE "Ok"

\* lib.rs 119..121: thread.join().unwrap() returns once the worker's thread
\* has ended, and panics if it ended by a panic
join(pc) ==
    CASE pc = "exited" -> "Ok"
      [] pc = "panicked" -> "Panic"
      [] OTHER -> "Block"

(***************************************************************************)
(* State.                                                                  *)
(***************************************************************************)
VARIABLES
    routes,             \* Webserver.routes
    blacklisted_paths,  \* Webserver.blacklisted_paths
    files,              \* the files that exist
    notFound,           \* the handler given to the last set_404_callback
    lastCall,           \* the call the last step made: [op, arg, result]
    served,             \* the outcome of the last connection processed
    poolSize,           \* ThreadPool.workers.len()
    sender,             \* ThreadPool.sender: "Some" or "None"
    queue,              \* the channel: the ids of the jobs sent, not yet received
    jobs,               \* every job sent, by id (its place in this sequence)
    wpc,                \* each worker's place in its loop
    wjob,               \* the job each worker received last
    lock,               \* the worker holding the Mutex of the receiver, or 0
    dropPc,             \* the teardown of the pool (Drop for ThreadPool)
    joinIdx,            \* the worker the teardown joins next
    stopCalled,         \* stop() has been called on the pool
    mainPc,             \* the server's thread: its place in start
    connection_type,    \* Webserver.connection_type
    receiver            \* Webserver.receiver: "Some" or "None"

routeVars == <<routes, blacklisted_paths, files, notFound, served>>
poolVars == <<poolSize, sender, queue, jobs, wpc, wjob, lock, dropPc, joinIdx, stopCalled>>
serverVars == <<mainPc, connection_type, receiver>>
vars == <<routeVars, lastCall, poolVars, serverVars>>

Workers == 1..poolSize

\* the receiver lives in an Arc each worker's closure holds: it is dropped,
\* with the jobs still in the channel, when the last worker's thread has ended
ReceiverAlive(pc) == \E w \in DOMAIN pc : pc[w] \notin {"exited", "panicked"}

\* ThreadPool::new(size) (lib.rs 69..86), size > 0
PoolInit(size) ==
    /\ poolSize = size
    /\ sender = "Some"
    /\ queue = <<>>
    /\ jobs = <<>>
    /\ wpc = [w \in 1..size |-> "idle"]
    /\ wjob = [w \in 1..size |-> 0]
    /\ lock = 0
    /\ dropPc = "alive"
    /\ joinIdx = 1
    /\ stopCalled = FALSE

\* Webserver::new: connection_type and receiver (server.rs 140..141); a
\* receiver is given by with_receiver (server.rs 153..156)
ServerInit(rcv) ==
    /\ mainPc = "ready"
    /\ connection_type = "None"
    /\ receiver = rcv

Call(op, arg, result) == [op |-> op, arg |-> arg, result |-> result]

NotServed == [conn |-> NoConn, out |-> NoOutcome]

(***************************************************************************)
(* Inputs.                                                                 *)
(***************************************************************************)
\* the blacklists given to Webserver::new: the canonical path of the secret
\* file, or the same file by a relative path
BlacklistInputs == { <<FileS>>, << << <<"s">> >> >> }

\* the paths given to add_route
RouteInputs == { <<>>, <<"/">>, <<"/", "a">>, Route404 }

\* the file names given to add_accessible_files ("x" does not exist)
FileNames == { <<"a">>, <<"s">>, <<"x">> }
FileLists ==
    { <<f>> : f \in FileNames }
    \cup { << <<"a">>, <<"s">> >>, << <<"a">>, <<"x">> >>, << <<"x">>, <<"a">> >>,
           << <<"s">>, <<"s">> >> }

NotFoundInputs == UserNotFound \cup {"base_not_found_handler"}

\* request lines ("G" the method, "H" the version)
Line(path) == Ok(<<"G", " ">> \o path \o <<" ", "H">>)
RequestPaths ==
    { <<"/">>, <<"/", "a">>, <<"/", "s">>, <<"/", ".", "/", "s">>, <<"/", "x">>,
      <<"?", "a">>, Route404, <<"/", "%", "F", "F">> }
HttpInputs ==
    { [input |-> Line(p), io |-> "none"] : p \in RequestPaths }
    \cup { [input |-> Line(<<"/">>), io |-> f] : f \in {"read", "write", "flush"} }
    \cup { [input |-> i, io |-> "none"] : i \in {Fail, Ok(<<>>), Ok(<<"G">>)} }
HttpsInputs ==
    { [input |-> Line(p), io |-> "none"] : p \in { <<"/">>, <<"/", "s">>, <<"/", "x">> } }
    \cup { [input |-> Line(<<"/">>), io |-> f] : f \in {"read", "write"} }
    \cup { [input |-> Fail, io |-> "none"] }

Connections ==
    { ConnectionInfo_new(r.input, r.io) : r \in HttpInputs }
    \cup { ConnectionInfo_new_ssl(r.input, r.io) : r \in HttpsInputs }

(***************************************************************************)
(* RouteSpec: a server is built, routes are registered, and then           *)
(* connections are processed against the route table                       *)
(* (utils::handle_connection).  Registration precedes processing: start    *)
(* borrows the server mutably for as long as connections are accepted.     *)
(***************************************************************************)
RouteInit ==
    /\ routes = new_routes
    /\ blacklisted_paths \in BlacklistInputs
    /\ files \in {AllFiles, AllFiles \ {File404}}
    /\ notFound = "base_not_found_handler"
    /\ lastCall = Call("new", <<>>, "Ok")
    /\ served = NotServed
    /\ PoolInit(1)
    /\ ServerInit("None")

AddRoute(route, handler) ==
    /\ served = NotServed
    /\ Len(routes) <= MaxRoutes
    /\ LET r == add_route(routes, route, handler)
       IN  /\ routes' = r.routes
           /\ lastCall' = Call("add_route", route, r.result)
    /\ UNCHANGED <<blacklisted_paths, files, notFound, served, poolVars, serverVars>>

\* an add_accessible_files that resets the blacklist
AddAccessibleFiles_resetting(paths) ==
    /\ served = NotServed
    /\ Len(routes) + Len(paths) <= MaxRoutes + 1
    /\ LET r == add_accessible_files(files, routes, paths)
       IN  /\ routes' = r.routes
           /\ lastCall' = Call("add_accessible_files", paths, r.result)
    /\ blacklisted_paths' = <<>>
    /\ UNCHANGED <<files, notFound, served, poolVars, serverVars>>

AddAccessibleFiles(paths) ==
    /\ served = NotServed
    /\ Len(routes) + Len(paths) <= MaxRoutes + 1
    /\ LET r == add_accessible_files(files, routes, paths)
       IN  /\ routes' = r.routes
           /\ lastCall' = Call("add_accessible_files", paths, r.result)
    /\ UNCHANGED <<blacklisted_paths, files, notFound, served, poolVars, serverVars>>

Set404Callback(callback) ==
    /\ served = NotServed
    /\ routes' = set_404_callback(routes, callback)
    /\ notFound' = callback
    /\ lastCall' = Call("set_404_callback", <<>>, "Ok")
    /\ UNCHANGED <<blacklisted_paths, files, served, poolVars, serverVars>>

\* utils::handle_connection on a connection, with clones of the route table
\* and the blacklist
Serve(conn) ==
    /\ LET out == handle_connection(files, conn, routes, blacklisted_paths)
       IN  /\ served' = [conn |-> conn, out |-> out]
           /\ lastCall' = Call("handle_connection", <<>>, out.result)
    /\ UNCHANGED <<routes, blacklisted_paths, files, notFound, poolVars, serverVars>>

\* the environment removes a served file or the not-found page
RemoveFile(f) ==
    /\ served = NotServed
    /\ f \in files
    /\ files' = files \ {f}
    /\ lastCall' = Call("remove_file", <<>>, "Ok")
    /\ UNCHANGED <<routes, blacklisted_paths, notFound, served, poolVars, serverVars>>

RouteNext ==
    \/ \E route \in RouteInputs, handler \in UserHandlers : AddRoute(route, handler)
    \/ \E paths \in FileLists : AddAccessibleFiles(paths)
    \/ \E callback \in NotFoundInputs : Set404Callback(callback)
    \/ \E conn \in Connections : Serve(conn)
    \/ \E f \in {FileA, File404} : RemoveFile(f)

RouteSpec == RouteInit /\ [][RouteNext]_vars

(***************************************************************************)
(* The workers (Worker::new, lib.rs 131..143).                             *)
(***************************************************************************)
Running == {w \in Workers : wpc[w] = "run"}

\* receiver.lock().unwrap(): the worker waits for the Mutex and takes it
WorkerLock(w) ==
    /\ wpc[w] = "idle"
    /\ lock = 0
    /\ lock' = w
    /\ wpc' = [wpc EXCEPT ![w] = "recv"]
    /\ UNCHANGED <<routeVars, lastCall, poolSize, sender, queue, jobs, wjob, dropPc,
                   joinIdx, stopCalled, serverVars>>

\* .recv() under the lock: a job (the worker goes on to run it), or the end
\* of the channel (the worker breaks out of its loop and its thread ends)
WorkerRecv(w) ==
    /\ wpc[w] = "recv"
    /\ LET m == recv(queue, sender)
       IN  \/ /\ m.kind = "Ok"
              /\ queue' = m.queue
              /\ wjob' = [wjob EXCEPT ![w] = m.job]
              /\ jobs' = [jobs EXCEPT ![m.job].ran = @ + 1, ![m.job].status = "running"]
              /\ wpc' = [wpc EXCEPT ![w] = "run"]
              /\ lock' = lock_after_recv(w)
           \/ /\ m.kind = "Err"
              /\ wpc' = [wpc EXCEPT ![w] = "exited"]
              /\ lock' = 0
              /\ UNCHANGED <<queue, wjob, jobs>>
    /\ UNCHANGED <<routeVars, lastCall, poolSize, sender, dropPc, joinIdx, stopCalled,
                   serverVars>>

\* the jobs still in the channel are dropped with the receiver
DropQueued(js) ==
    [j \in DOMAIN js |->
        IF js[j].status = "queued" THEN [js[j] EXCEPT !.status = "dropped"] ELSE js[j]]

\* the workers' places once worker w's job has ended with result
AfterJob(w, result) == [wpc EXCEPT ![w] = IF result = "Ok" THEN "idle" ELSE "panicked"]

\* the jobs once worker w's job has ended as r says
Ended(w, r) ==
    [jobs EXCEPT ![wjob[w]].status = IF r.result = "Ok" THEN "done" ELSE "panicked",
                 ![wjob[w]].out = r.out]

\* worker w's job has ended as r says; a panic ends the worker's thread, and
\* the last thread to end drops the receiver with the jobs still in it
FinishWith(w, r) ==
    /\ wpc' = AfterJob(w, r.result)
    /\ IF ReceiverAlive(AfterJob(w, r.result))
       THEN /\ jobs' = Ended(w, r)
            /\ queue' = queue
       ELSE /\ jobs' = DropQueued(Ended(w, r))
            /\ queue' = <<>>

\* job(): the closure runs to its end (lib.rs 137)
WorkerFinish(w) ==
    /\ wpc[w] = "run"
    /\ FinishWith(w, run_job(files, jobs[wjob[w]]))
    /\ lock' = IF lock = w THEN 0 ELSE lock
    /\ UNCHANGED <<routeVars, lastCall, poolSize, sender, wjob, dropPc, joinIdx,
                   stopCalled, serverVars>>

WorkerNext ==
    \/ \E w \in Workers : WorkerLock(w)
    \/ \E w \in Workers : WorkerRecv(w)
    \/ \E w \in Workers : WorkerFinish(w)

(***************************************************************************)
(* The teardown of the pool (Drop for ThreadPool, lib.rs 114..124).        *)
(***************************************************************************)
DropBegin ==
    /\ dropPc = "alive"
    /\ mainPc \in {"ready", "panicked"}
    /\ sender' = take_sender(sender)
    /\ dropPc' = "joining"
    /\ UNCHANGED <<routeVars, lastCall, poolSize, queue, jobs, wpc, wjob, lock, joinIdx,
                   stopCalled, serverVars>>

DropJoin ==
    /\ dropPc = "joining"
    /\ LET r == join(wpc[joinIdx])
       IN  \/ /\ r = "Ok"
              /\ joinIdx' = joinIdx + 1
              /\ dropPc' = IF joinIdx = poolSize THEN "returned" ELSE "joining"
           \/ /\ r = "Panic"
              /\ dropPc' = "panicked"
              /\ joinIdx' = joinIdx
    /\ UNCHANGED <<routeVars, lastCall, poolSize, sender, queue, jobs, wpc, wjob, lock,
                   stopCalled, serverVars>>

(***************************************************************************)
(* PoolSpec: a pool used directly (lib.rs 158..180): a thread submits      *)
(* closures, may stop the pool, and drops it.                              *)
(***************************************************************************)
Execute(panics) ==
    /\ dropPc = "alive"
    /\ LET r == ThreadPool_execute(sender, ReceiverAlive(wpc), queue, Len(jobs) + 1)
       IN  /\ Len(jobs) < MaxJobs \/ r.result = "Panic"
           /\ queue' = r.queue
           /\ jobs' = IF r.result = "Ok" THEN Append(jobs, Closure(panics)) ELSE jobs
           /\ lastCall' = Call("execute", <<>>, r.result)
    /\ UNCHANGED <<routeVars, poolSize, sender, wpc, wjob, lock, dropPc, joinIdx,
                   stopCalled, serverVars>>

\* lib.rs 108..111; the call records how many jobs it left queued and running
Stop ==
    /\ dropPc = "alive"
    /\ sender' = take_sender(sender)
    /\ stopCalled' = TRUE
    /\ lastCall' = Call("stop", <<Len(queue), Cardinality(Running)>>, "Ok")
    /\ UNCHANGED <<routeVars, poolSize, queue, jobs, wpc, wjob, lock, dropPc, joinIdx,
                   serverVars>>

PoolSpecInit ==
    /\ routes = new_routes
    /\ blacklisted_paths = <<>>
    /\ files = AllFiles
    /\ notFound = "base_not_found_handler"
    /\ lastCall = Call("new", <<>>, "Ok")
    /\ served = NotServed
    /\ \E size \in 1..MaxWorkers : PoolInit(size)
    /\ ServerInit("None")

PoolNext ==
    \/ \E panics \in BOOLEAN : Execute(panics)
    \/ Stop
    \/ DropBegin
    \/ DropJoin
    \/ WorkerNext

PoolSpec == PoolSpecInit /\ [][PoolNext]_vars

\* the pool under a scheduler that lets every worker thread run, with jobs
\* that end: a worker that can take a step eventually takes one
WorkerStep(w) == w \in Workers /\ (WorkerLock(w) \/ WorkerRecv(w) \/ WorkerFinish(w))

PoolFairSpec == PoolSpec /\ \A w \in 1..MaxWorkers : WF_vars(WorkerStep(w))

(***************************************************************************)
(* Spec: a server runs (Webserver::start, server.rs 247..335).  The route  *)
(* table is one that registration reaches; connections arrive and are      *)
(* handed to the pool; a control channel may deliver tasks.                *)
(***************************************************************************)
\* the connections that arrive on a plain and on an encrypted listener
HttpArrivals ==
    { ConnectionInfo_new(Line(<<"/">>), "none"), ConnectionInfo_new(Fail, "none") }
HttpsArrivals ==
    { ConnectionInfo_new_ssl(Line(<<"/">>), "none"), ConnectionInfo_new_ssl(Fail, "none") }

\* what the control channel delivers: a task, or its end ("Closed")
Messages == {"Shutdown", "Connection", "Closed"}

Init ==
    /\ routes = add_route(new_routes, <<"/">>, "h1").routes
    /\ blacklisted_paths = <<FileS>>
    /\ files = AllFiles
    /\ notFound = "base_not_found_handler"
    /\ lastCall = Call("new", <<>>, "Ok")
    /\ served = NotServed
    /\ \E size \in 1..MaxWorkers : PoolInit(size)
    /\ \E rcv \in {"Some", "None"} : ServerInit(rcv)

\* server.rs 247..254 with the bind of 260 / 300: the kind is stored, then
\* the listener is bound; a failed bind returns the Err at once
Start(kind, bound) ==
    /\ mainPc = "ready"
    /\ dropPc = "alive"
    /\ connection_type' = kind
    /\ mainPc' = IF ~bound THEN "ready"
                 ELSE IF kind = "Http" THEN "http_loop" ELSE "https_accept"
    /\ UNCHANGED <<routeVars, lastCall, poolVars, receiver>>

\* the receive() future of the select! that lost: if it was polled it has
\* taken the receiver out of the server and drops it (server.rs 221..223)
AfterSelect(polled) == IF polled THEN "None" ELSE receiver
Polled == IF receiver = "Some" THEN BOOLEAN ELSE {FALSE}

\* the job of a connection is handed to the pool; a failed execute panics
Submit(conn, next) ==
    LET r == ThreadPool_execute(sender, ReceiverAlive(wpc), queue, Len(jobs) + 1)
    IN  /\ Len(jobs) < MaxJobs \/ r.result = "Panic"
        /\ queue' = r.queue
        /\ jobs' = IF r.result = "Ok"
                   THEN Append(jobs, ConnectionJob(conn, routes, blacklisted_paths))
                   ELSE jobs
        /\ mainPc' = IF r.result = "Ok" THEN next ELSE "panicked"

\* server.rs 264..277: a connection is accepted and submitted; the loop goes on
AcceptHttp(conn, polled) ==
    /\ mainPc = "http_loop"
    /\ Submit(conn, "http_loop")
    /\ receiver' = AfterSelect(polled)
    /\ UNCHANGED <<routeVars, lastCall, poolSize, sender, wpc, wjob, lock, dropPc,
                   joinIdx, stopCalled, connection_type>>

\* server.rs 278..280: accept failed; the loop goes on
AcceptErrorHttp(polled) ==
    /\ mainPc = "http_loop"
    /\ receiver' = AfterSelect(polled)
    /\ UNCHANGED <<routeVars, lastCall, poolVars, mainPc, connection_type>>

\* server.rs 282..293 with receive (220..238): a Shutdown ends the loop, any
\* other task is reported, the end of the channel leaves the receiver None
Receive(msg) ==
    /\ mainPc = "http_loop"
    /\ receiver = "Some"
    /\ mainPc' = IF msg = "Shutdown" THEN "stopping" ELSE "http_loop"
    /\ receiver' = IF msg = "Closed" THEN "None" ELSE "Some"
    /\ UNCHANGED <<routeVars, lastCall, poolVars, connection_type>>

\* server.rs 309..326: one connection is accepted and submitted, and
\* start_https returns
AcceptHttps(conn) ==
    /\ mainPc = "https_accept"
    /\ Submit(conn, "stopping")
    /\ UNCHANGED <<routeVars, lastCall, poolSize, sender, wpc, wjob, lock, dropPc,
                   joinIdx, stopCalled, connection_type, receiver>>

\* server.rs 327..329: accept failed, and start_https returns
AcceptErrorHttps ==
    /\ mainPc = "https_accept"
    /\ mainPc' = "stopping"
    /\ UNCHANGED <<routeVars, lastCall, poolVars, connection_type, receiver>>

\* once start has returned the server can be given a route again
\* (server.rs 197..208), while jobs of its connections may still be queued
\* or running; the calls that succeed are the ones that leave a server
Register(route, handler) ==
    /\ mainPc = "ready"
    /\ stopCalled
    /\ dropPc = "alive"
    /\ Len(routes) <= MaxRoutes
    /\ add_route(routes, route, handler).result = "Ok"
    /\ routes' = add_route(routes, route, handler).routes
    /\ UNCHANGED <<blacklisted_paths, files, notFound, served, lastCall, poolVars,
                   serverVars>>

\* server.rs 255..256: the accept loop has returned Ok; the pool is stopped
\* and start returns
FinishStart ==
    /\ mainPc = "stopping"
    /\ sender' = take_sender(sender)
    /\ stopCalled' = TRUE
    /\ mainPc' = "ready"
    /\ UNCHANGED <<routeVars, lastCall, poolSize, queue, jobs, wpc, wjob, lock, dropPc,
                   joinIdx, connection_type, receiver>>

Next ==
    \/ \E kind \in {"Http", "Https"}, bound \in BOOLEAN : Start(kind, bound)
    \/ \E conn \in HttpArrivals, polled \in Polled : AcceptHttp(conn, polled)
    \/ \E polled \in Polled : AcceptErrorHttp(polled)
    \/ \E msg \in Messages : Receive(msg)
    \/ \E conn \in HttpsArrivals : AcceptHttps(conn)
    \/ AcceptErrorHttps
    \/ FinishStart
    \/ \E route \in RouteInputs, handler \in UserHandlers : Register(route, handler)
    \/ DropBegin
    \/ DropJoin
    \/ WorkerNext

Spec == Init /\ [][Next]_vars

(***************************************************************************)
(* SanitizeSpec: the sanitization of utils.rs 74..78 applied to a raw path *)
(* token, the second token split_whitespace yields (so it is not empty and *)
(* holds no whitespace).  A token is a concatenation of pieces.            *)
(***************************************************************************)
Pieces ==
    { <<"/">>, <<"/", "a">>, <<"/", ".", ".">>, <<"/", "%", "2", "E", "%", "2", "E">>,
      <<"?">>, <<"%", "2", "0">> }

RECURSIVE Flatten(_)
Flatten(ps) == IF ps = <<>> THEN <<>> ELSE Head(ps) \o Flatten(Tail(ps))

RawTokens == { Flatten(ps) : ps \in UNION { [1..n -> Pieces] : n \in 1..MaxPieces } }

SanitizeInit ==
    /\ routes = new_routes
    /\ blacklisted_paths = <<>>
    /\ files = AllFiles
    /\ notFound = "base_not_found_handler"
    /\ \E raw \in RawTokens : lastCall = Call("token", raw, Fail)
    /\ served = NotServed
    /\ PoolInit(1)
    /\ ServerInit("None")

\* utils.rs 74..78 on the token read
Sanitize ==
    /\ lastCall.op = "token"
    /\ lastCall' = Call("sanitize", lastCall.arg, sanitize(lastCall.arg))
    /\ UNCHANGED <<routeVars, poolVars, serverVars>>

SanitizeNext == Sanitize

SanitizeSpec == SanitizeInit /\ [][SanitizeNext]_vars

(***************************************************************************)
(* Properties.                                                             *)
(***************************************************************************)
Submitted == DOMAIN jobs

\* C1: when m jobs have been submitted and the teardown of the pool has
\* returned, each of them has been executed exactly once, under every
\* interleaving of the workers; and no job is ever executed twice.
C1_EachJobRunsOnce ==
    /\ \A j \in Submitted : jobs[j].ran <= 1
    /\ dropPc = "returned" =>
           \A j \in Submitted : jobs[j].ran = 1 /\ jobs[j].status = "done"

\* teardown has returned on a pool of two workers that both ran jobs
C1_Witness ==
    /\ dropPc = "returned"
    /\ poolSize >= 2
    /\ Len(jobs) >= 3
    /\ \A w \in Workers : wjob[w] # 0

\* C2: a connection-level failure (handle_connection returning an Err) does
\* not end the worker that ran it: a worker's thread ends by a panic only if
\* a handler or a stream access panicked, so that after failing connections
\* every worker is still alive.
C2_FailureKeepsWorker ==
    \A w \in Workers : wpc[w] = "panicked" => jobs[wjob[w]].out.result = "Panic"

\* C3: no processed connection is answered with the bytes of a file whose
\* canonical path is an entry of the blacklist, whichever binding handled it.
C3_BlacklistedNeverServed ==
    served.out.response.kind = "Bytes" =>
        \A i \in 1..Len(blacklisted_paths) :
            blacklisted_paths[i] # served.out.response.file_location

\* the sanitized path of the connection processed last matches no binding
Unmatched ==
    /\ served # NotServed
    /\ served.out.route.ok
    /\ \A i \in 1..Len(routes) : routes[i].route # served.out.route.val

\* C4: when the sanitized path equals no binding's path, the response is the
\* output of the not-found handler registered last (the default one if none
\* was set), and that handler is the only one invoked.
C4_UnmatchedGetsNotFound ==
    Unmatched =>
        /\ served.out.response =
               Invoke(files, notFound,
                      RequestInfo(served.conn, served.out.route.val, blacklisted_paths))
        /\ served.out.calls = <<notFound>>

\* a request for a path nobody registered is answered by the second
\* not-found handler a server with user routes was given
C4_Witness ==
    /\ Unmatched
    /\ Len(routes) >= 2
    /\ served.out.response = Page(404, <<"nf2">>)

\* a step that is a call of add_route
IsAddRoute == lastCall'.op = "add_route" /\ lastCall' # lastCall

Bound(rs, route) == \E i \in 1..Len(rs) : rs[i].route = route

\* C5: add_route with an empty path, or with a path that is already bound
\* ("404" included), fails fatally and leaves the route table as it was.
C5_AddRouteRejects ==
    [][ (IsAddRoute /\ (lastCall'.arg = <<>> \/ Bound(routes, lastCall'.arg)))
            => (lastCall'.result = "Panic" /\ routes' = routes) ]_vars

\* add_route("404", h) failed on a server
C5_Witness == lastCall = Call("add_route", Route404, "Panic")

\* C6: the route table always holds exactly one binding for "404", and the
\* paths of its bindings are non-empty and pairwise distinct.
C6_RouteTableInvariant ==
    /\ Cardinality({i \in 1..Len(routes) : routes[i].route = Route404}) = 1
    /\ \A i \in 1..Len(routes) : routes[i].route # <<>>
    /\ \A i, j \in 1..Len(routes) : routes[i].route = routes[j].route => i = j

\* a registration call failed on a server with user routes and a replaced
\* not-found handler
C6_Witness ==
    /\ Len(routes) >= 3
    /\ notFound # "base_not_found_handler"
    /\ lastCall.result = "Panic"

\* C7: the submission of a connection's job fails (the accept loop panics in
\* execute) only once stop() has been called, and once stop() has been
\* called no further job is enqueued.
C7_ExecuteFailsOnlyAfterStop ==
    [][ /\ (mainPc' = "panicked" /\ mainPc # "panicked") => stopCalled
        /\ stopCalled => Len(jobs') = Len(jobs) /\ Len(queue') <= Len(queue) ]_vars

\* C8: stop() is never blocked by a worker or a job, and the teardown has
\* returned only when the queue is closed and empty, no job is executing and
\* every worker's thread has ended and been joined.
C8_StopReturnsDropWaits ==
    /\ dropPc = "alive" => ENABLED Stop
    /\ dropPc = "returned" =>
           /\ sender = "None"
           /\ queue = <<>>
           /\ Running = {}
           /\ \A w \in Workers : wpc[w] = "exited"
           /\ joinIdx > poolSize

\* stop() returned while a job was queued and another was executing, and the
\* teardown has returned later
C8_Witness ==
    /\ dropPc = "returned"
    /\ lastCall.op = "stop"
    /\ lastCall.arg[1] > 0
    /\ lastCall.arg[2] > 0

Accepting == {"http_loop", "https_accept"}

\* C9: for both transport kinds the accept loop is left only when a Shutdown
\* task is received: after a connection has been accepted and submitted (and
\* after a failed accept) the loop is still accepting.
C9_AcceptsUntilShutdown ==
    [][ (mainPc \in Accepting /\ mainPc' \notin Accepting) => Receive("Shutdown") ]_vars

ConnStates == <<"Accepted", "LineRead", "Sanitized", "Dispatched", "Rendered", "Closed">>

\* a trace is in order: a prefix of ConnStates, possibly followed by Aborted
InOrder(tr) ==
    \/ tr = ConnStates
    \/ /\ Len(tr) >= 2
       /\ tr[Len(tr)] = "Aborted"
       /\ \A i \in 1..(Len(tr) - 1) : i <= Len(ConnStates) /\ tr[i] = ConnStates[i]

\* the request line holds a path token that decodes, and no I/O fails
WellFormed(conn) ==
    /\ conn.io = "none"
    /\ conn.input.ok
    /\ Len(split_whitespace(conn.input.val)) >= 2
    /\ sanitize(split_whitespace(conn.input.val)[2]).ok

\* C10: a connection whose handlers return goes through Accepted, LineRead,
\* Sanitized, Dispatched, Rendered, Closed in that order and ends in Closed
\* or Aborted; on either transport kind, with a well-formed request line and
\* no I/O failure, it ends in Closed.
C10_WellFormedReachesClosed ==
    (served # NotServed /\ served.out.response.kind # "Panic") =>
        /\ InOrder(served.out.trace)
        /\ WellFormed(served.conn) => served.out.trace = ConnStates

\* the connection processed last was dispatched to the built-in file handler
FileHandled ==
    /\ served # NotServed
    /\ served.out.calls # <<>>
    /\ served.out.calls[Len(served.out.calls)] = "base_file_handler"

\* the file a route of add_accessible_files names: the path without its "/"
TargetFile(route) == BytesNew(files, 200, SliceFrom1(route).val)

\* C11: when a request is dispatched to the built-in file handler and the
\* file its route names cannot be opened at request time, the handler yields
\* a status-404 page (it does not panic, so the job does not fail).
C11_MissingFileGets404 ==
    (FileHandled /\ ~TargetFile(served.out.route.val).ok) =>
        /\ served.out.response.kind = "Page"
        /\ served.out.response.status = 404

\* C12: the transport kind is unset until the first start, is set once by
\* it, and never changes afterwards: a later start asking for another kind
\* leaves the stored kind as it was.
C12_KindSetOnce ==
    [][ connection_type # "None" => connection_type' = connection_type ]_vars

\* the sanitization of a token whose decoding succeeded has been computed
Sanitized == lastCall.op = "sanitize" /\ decode(lastCall.arg).ok

\* the indices at which "/../" occurs in d
Occ(d) == {i \in 1..Len(d) : MatchAt(d, i, DotDotSeg)}

\* two occurrences overlap only in the "/" they share (3 apart); of a chain
\* of such occurrences a scan from the left takes the 1st, the 3rd, ...
ChainStart(occ, i) ==
    CHOOSE j \in occ :
        /\ j <= i /\ (i - j) % 3 = 0
        /\ \A k \in j..i : (k - j) % 3 = 0 => k \in occ
        /\ j - 3 \notin occ

Taken(occ) == {i \in occ : ((i - ChainStart(occ, i)) \div 3) % 2 = 0}

\* r is d with each occurrence taken replaced by "/": the "../" of each is
\* gone, and every other character of d is in r, moved left accordingly
ReplacedAt(d, r, taken) ==
    /\ Len(r) = Len(d) - 3 * Cardinality(taken)
    /\ \A k \in 1..Len(d) :
           (~\E i \in taken : i < k /\ k <= i + 3) =>
               r[k - 3 * Cardinality({i \in taken : i < k})] = d[k]

LiteralReplaced(d, r) == ReplacedAt(d, r, Taken(Occ(d)))

HasQuery(d) == \E i \in 1..Len(d) : d[i] = "?"

\* the characters of s that are neither "/" nor "."
Names(s) == SelectSeq(s, LAMBDA c : c \notin {"/", "."})

\* C13: sanitization replaces each occurrence of "/../" in the decoded path
\* (from the left, occurrences not overlapping) by "/" and resolves nothing:
\* what stands before a "/../" is kept, "/a/../a" does not become "/a".
C13_LiteralDotDotReplaced ==
    (Sanitized /\ ~HasQuery(decode(lastCall.arg).val)) =>
        /\ lastCall.result.ok
        /\ LiteralReplaced(decode(lastCall.arg).val, lastCall.result.val)
        /\ Names(lastCall.result.val) = Names(decode(lastCall.arg).val)

\* "/a/../a" has been sanitized to "/a/a"
C13_Witness ==
    /\ lastCall.op = "sanitize"
    /\ lastCall.arg = <<"/", "a", "/", ".", ".", "/", "a">>
    /\ lastCall.result = Ok(<<"/", "a", "/", "a">>)

\* s up to, not including, its first '?' (all of s when it has none)
BeforeQuery(s) ==
    IF HasQuery(s)
    THEN Slice(s, 1, (CHOOSE i \in 1..Len(s) : s[i] = "?" /\ \A k \in 1..(i - 1) : s[k] # "?") - 1)
    ELSE s

\* C14: the last sanitization step removes everything from the first '?'
\* through the end of the token from the decoded and "/../"-replaced path,
\* so the path used for the route lookup never contains '?'.
C14_QueryRemoved ==
    Sanitized =>
        /\ lastCall.result.ok
        /\ lastCall.result.val = BeforeQuery(remove_dotdot(decode(lastCall.arg).val))

\* the canonical absolute paths: those canonicalize can return
IsCanonical(p) == p \in Dirs \cup AllFiles

\* C15: every entry of the stored blacklist, as handed to the handlers, is a
\* canonical absolute path, whatever form the path was given in.
C15_BlacklistCanonical ==
    \A i \in 1..Len(blacklisted_paths) : IsCanonical(blacklisted_paths[i])

\* C16: route registration never touches the blacklist: no call of
\* add_route, add_accessible_files or set_404_callback (nor any other step)
\* changes blacklisted_paths, which stays what Webserver::new was given.
C16_RegistrationKeepsBlacklist ==
    [][ blacklisted_paths' = blacklisted_paths ]_vars

\* files were registered on a server that has a user route and a replaced
\* not-found handler, and its blacklist is the one it was built with
C16_Witness ==
    /\ lastCall.op = "add_accessible_files"
    /\ lastCall.result = "Ok"
    /\ Len(routes) >= 3
    /\ \E i \in 1..Len(routes) : routes[i].handler \in UserHandlers
    /\ notFound \in UserNotFound
    /\ blacklisted_paths = <<FileS>>

\* C17: no worker holds the lock of the queue while it executes a job: the
\* lock is held only by a worker that is dequeuing.  So while a job runs
\* (for however long) and nobody is dequeuing, any idle worker can take the
\* lock and go on to dequeue.
C17_LockOnlyForDequeue ==
    /\ \A w \in Workers : wpc[w] = "run" => lock # w
    /\ lock # 0 => wpc[lock] = "recv"
    /\ \A w \in Workers :
           (wpc[w] = "idle" /\ \A v \in Workers : wpc[v] # "recv") => ENABLED WorkerLock(w)

\* two workers execute jobs at the same time
C17_Witness ==
    /\ Cardinality(Running) >= 2
    /\ \A w \in Running : jobs[wjob[w]].status = "running"

\* a step in which worker w breaks out of its loop
Breaks(w) == wpc[w] # "exited" /\ wpc'[w] = "exited"

\* C18: a worker breaks out of its loop only at a dequeue that finds the
\* queue closed and empty, with no submitted job still queued; and once the
\* queue has been closed, every worker's thread eventually ends.
C18_WorkersExitOnClosedEmpty ==
    /\ [][ \A w \in Workers :
               Breaks(w) => /\ wpc[w] = "recv"
                            /\ sender = "None"
                            /\ queue = <<>>
                            /\ \A j \in Submitted : jobs[j].status # "queued" ]_vars
    /\ (sender = "None") ~> (\A w \in Workers : wpc[w] \in {"exited", "panicked"})

\* the queue was closed with jobs in it and both workers of a pool have
\* left their loops after running them
C18_Witness ==
    /\ poolSize >= 2
    /\ \A w \in Workers : wpc[w] = "exited"
    /\ lastCall.op = "stop"
    /\ lastCall.arg[1] >= 2
    /\ \A j \in Submitted : jobs[j].status = "done"

\* the connection processed last got as far as the route lookup
Dispatched == served # NotServed /\ served.out.route.ok

\* C19: each dispatched request invokes exactly one handler; a request whose
\* path equals a registered route invokes that route's handler and never the
\* not-found handler, which is invoked only when the scan found no match.
C19_OneHandlerPerRequest ==
    Dispatched =>
        /\ Len(served.out.calls) = 1
        /\ \A i \in 2..Len(routes) :
               routes[i].route = served.out.route.val =>
                   served.out.calls = <<routes[i].handler>>

\* the pool was closed by a start whose jobs all came from the plain accept
\* loop: that loop returned, so it received a Shutdown task
ShutDown ==
    /\ stopCalled
    /\ jobs # <<>>
    /\ \A j \in Submitted : jobs[j].conn.connection_type = "Http"

\* C20: once the accept loop has received a Shutdown task no further
\* connection is submitted and start closes the queue of the pool; a task
\* other than Shutdown does not end the loop; and every job submitted before
\* the shutdown is executed to completion: none is dropped or interrupted,
\* and all are done when the teardown of the pool has finished.
C20_CooperativeShutdown ==
    /\ [][ mainPc = "stopping" =>
               /\ Len(jobs') = Len(jobs)
               /\ mainPc' # mainPc => sender' = "None" ]_vars
    /\ [][ \A msg \in Messages \ {"Shutdown"} : Receive(msg) => mainPc' = "http_loop" ]_vars
    /\ [](ShutDown => \A j \in Submitted : jobs[j].status \in {"queued", "running", "done"})
    /\ [](ShutDown /\ dropPc \in {"returned", "panicked"} =>
              \A j \in Submitted : jobs[j].status = "done")

\* C21: the job of a connection holds its own copy of the route table and
\* of the blacklist, equal to the server's when the connection was accepted;
\* no later step changes the copy of a job, and the server's route table and
\* blacklist do not change while the accept loop runs.
C21_JobsReadTheirOwnCopy ==
    [][ /\ \A j \in Submitted :
               /\ jobs'[j].routes = jobs[j].routes
               /\ jobs'[j].blacklisted_paths = jobs[j].blacklisted_paths
        /\ Len(jobs') > Len(jobs) =>
               /\ jobs'[Len(jobs')].routes = routes
               /\ jobs'[Len(jobs')].blacklisted_paths = blacklisted_paths
        /\ mainPc \in Accepting =>
               /\ routes' = routes
               /\ blacklisted_paths' = blacklisted_paths ]_vars

\* a job has run to its end on the table its connection was accepted with,
\* after the server was given another route
C21_Witness ==
    \E j \in Submitted :
        /\ jobs[j].status = "done"
        /\ jobs[j].routes # routes
        /\ jobs[j].out.calls = <<"base_not_found_handler", "h1">>

\* C22: the sanitized path handed to the route lookup and to the handlers
\* holds no occurrence of "/../": one pass of the replacement leaves none.
C22_NoDotDotSegmentLeft ==
    Sanitized => (lastCall.result.ok /\ Occ(lastCall.result.val) = {})

\* a step that is a call of add_accessible_files
IsAddFiles == lastCall'.op = "add_accessible_files" /\ lastCall' # lastCall

\* the bindings "/" + p of the built-in file handler, for the paths in order
FileBindings(paths) ==
    [i \in 1..Len(paths) |-> Handler(<<"/">> \o paths[i], "base_file_handler")]

\* C23: add_accessible_files is all-or-nothing: when it returns an Err the
\* route table is as before the call; when it returns Ok the table has
\* gained the binding "/" + p of the file handler for each path p, in order.
C23_AddFilesAllOrNothing ==
    [][ IsAddFiles =>
            /\ lastCall'.result = "Err" => routes' = routes
            /\ lastCall'.result = "Ok" => routes' = routes \o FileBindings(lastCall'.arg) ]_vars

\* the wrapper holds the variant its kind names, and only that one
OneVariant(conn) ==
    IF conn.connection_type = "Http"
    THEN conn.stream = "Some" /\ conn.ssl_stream = "None"
    ELSE conn.ssl_stream = "Some" /\ conn.stream = "None"

\* the processing panicked though no handler did: it asked the wrapper for
\* the variant that is not populated
WrongVariantAccess(out) == out.result = "Panic" /\ out.response.kind # "Panic"

\* C24: every transport wrapper has exactly the variant of its kind
\* populated, and the processing of a connection of either kind (request
\* read, response send, flush) never accesses the other variant.
C24_NoWrongVariantAccess ==
    served # NotServed =>
        /\ OneVariant(served.conn)
        /\ ~WrongVariantAccess(served.out)

\* the connection of the other transport kind carrying the same bytes
Twin(conn) ==
    IF conn.connection_type = "Http"
    THEN ConnectionInfo_new_ssl(conn.input, conn.io)
    ELSE ConnectionInfo_new(conn.input, conn.io)

SameDispatch(a, b) ==
    /\ a.route = b.route
    /\ a.calls = b.calls
    /\ a.response = b.response

\* C25: dispatch does not depend on the transport kind: with the same
\* request line, route table, blacklist and files, a plain and an encrypted
\* connection sanitize to the same path, invoke the same handlers and get
\* the same response (for the built-in file handler: same file, status, body).
C25_DispatchIgnoresTransport ==
    served # NotServed =>
        SameDispatch(served.out,
                     handle_connection(files, Twin(served.conn), routes, blacklisted_paths))

=============================================================================
